---- MODULE Spec2Model ----
(***************************************************************************)
(* Model of the Cumulocity microservice template:                          *)
(*   - src/main/multi_tenant.py : the multi-tenant entrypoint (registry of  *)
(*     subscribed tenants, listener callbacks, background sweep, HTTP       *)
(*     handlers, shutdown sequence);                                        *)
(*   - src/main/simple_tenant.py: the single-tenant entrypoint (/user);     *)
(*   - tasks.py, microservice_util.py: the invoke tasks and load_env.       *)
(* The SubscriptionListener, the scheduler and the platform are libraries   *)
(* outside the repository; they are modelled from the contract the spec     *)
(* gives for them (blocking callbacks run in the listener thread, non-      *)
(* blocking ones on a worker thread; shutdown waits for both).              *)
(***************************************************************************)
EXTENDS Integers, FiniteSets, Sequences, TLC

(* ------------------------------ bounds -------------------------------- *)

\* Tenants are 0..MaxTenants; tenant 0 is the bootstrap (provider) tenant.
MaxTenants == 1

\* Number of polls the subscription listener performs in one run.
MaxPolls == 2

(* ------------------------- program constants -------------------------- *)

\* c8y_bootstrap.tenant_id: the tenant the microservice is registered in.
BootstrapTenant == 0

Tenants == 0..MaxTenants

\* An inbound request either carries credentials of a user of some tenant or
\* carries none (or invalid ones).
NoCredentials == -1

Callers == Tenants \cup {NoCredentials}

\* Devices of the single tenant's inventory are 1..MaxDevices.
MaxDevices == 2

\* Calling users of the single tenant are 1..MaxUsers.
MaxUsers == 2

\* Values of environment variables are 1..MaxValue.
MaxValue == 2

\* The platform holds at most MaxApps applications, and hands out ids up to
\* MaxAppId.
MaxApps == 2

MaxAppId == MaxApps

\* A name has at most MaxNameLen characters.
MaxNameLen == 3

(* ----------------------- the external platform ------------------------ *)

\* The managed objects of a tenant's inventory.
DevicesOf(t) == {2 * t + 1, 2 * t + 2}

\* The service user of a tenant (tenant-scoped client) sees the whole
\* inventory; a calling user sees what their inventory roles allow.
ServiceName(t) == <<"service", t>>

UserName(t) == <<"user", t>>

ServiceDevices(t) == DevicesOf(t)

UserDevices(t) == {2 * t + 1}

NoName == <<"none", NoCredentials>>

(* ------------------- environment variables (tasks.py) ----------------- *)

\* A variable name is its prefix and the rest of it.
EnvNames == {<<"C8Y_", "BASEURL">>, <<"C8Y_", "TENANT">>, <<"", "HOME">>}

\* A variable that is not set.
Unset == 0

EnvValues == 1..MaxValue

Environments == [EnvNames -> EnvValues \cup {Unset}]

\* No variable is set.
NoEnv == [k \in EnvNames |-> Unset]

NoFile == [exists |-> FALSE, vars |-> NoEnv]

DotenvFiles == {NoFile} \cup {[exists |-> TRUE, vars |-> e] : e \in Environments}

(* ------------------ names and applications (tasks.py) ----------------- *)

\* A name is a string of characters: a letter, a digit, the dash, the
\* underscore.
Chars == {"a", "1", "-", "_"}

\* The name the template generates.
DefaultName == <<"a", "a">>

\* The names the tasks are given: the generated one, and one with an
\* underscore, which a foreign application carries. Roles are "R1", "R2".
ForeignName == <<"a", "_">>

AppNames == {DefaultName, ForeignName}

Roles == {"R1", "R2"}

\* A list of required roles has at most as many entries as there are roles:
\* it can name a role twice.
MaxRoleLen == Cardinality(Roles)

(* ------------------------------ state --------------------------------- *)

VARIABLES
    subscribed_tenants,  \* multi_tenant.py: the global registry
    tasks,               \* add_subscriber calls on executor threads
    lpc,                 \* listener thread: "wait", "dispatch", "remove", "exited"
    pending,             \* events of the poll in flight still to dispatch
    current_subscribers, \* the listener's poll result in flight
    last_subscribers,    \* the listener's previous poll result
    polls,               \* number of polls started
    rm_tenant,           \* remove_subscriber in the listener thread: its argument
    rm_local,            \*   and the registry value it has read
    is_closed,           \* the listener's stop flag
    mpc,                 \* main thread: "serving", "stop", "sched", "lshutdown", "done"
    sweep_pc,            \* process_subscribers job: "idle", "running"
    sweep_todo,          \* tenants of the iterated set not yet visited
    sweep_processed,     \* tenants whose device count was logged in this tick
    sweep_failed,        \* the tenant whose processing raised in this tick
    resp,                \* the last HTTP response of the multi-tenant service
    fully_added,         \* history of the listener's callbacks: tenants whose
                         \*   add_subscriber returned, not removed since
    ever_added,          \*   and tenants add_subscriber was ever called with
    st_resp,             \* simple_tenant.py: the last HTTP response
    st_inventory,        \*   the devices of the tenant's inventory
    st_processed,        \*   the devices process_devices logged in its last run
    environ,             \* tasks.py: os.environ of the last invoke process
    dotenv_file,         \*   the variables the local .env file defines, if it exists
    dotenv_ms_file,      \*   likewise the file .env-ms
    task_done,           \*   the task that has run, "none" before
    env_at_start,        \*   os.environ when a task starts (the shell's)
    conn_env,            \*   os.environ when the platform connection was built
    connections,         \*   connections the last task built
    pf_apps,             \* the platform: its applications, in listing order
    pf_subscribed,       \*   ids of the applications the tenant is subscribed to
    pf_next_id,          \*   the id the next created application gets
    pf_binaries,         \*   ids of the applications with a binary attached
    pf_manifest,         \* requiredRoles of ./src/cumulocity.json
    pf_ops,              \* history: the microservice_util calls of the last
                         \*   task, each with the number of applications it
                         \*   found, its outcome and its requests
    nm_name_file,        \* content of the file MICROSERVICE_NAME
    nm_isolation_file,   \* content of the file ISOLATION
    nm_op,               \* the init or build the last task ran: name, outcome,
                         \*   effects
    sq_last,             \* callbacks called in succession: the last call <<op, tenant>>
    sq_repeat            \*   whether it repeated the call before it

mtVars == <<subscribed_tenants, tasks, lpc, pending, current_subscribers,
            last_subscribers, polls, rm_tenant, rm_local, is_closed, mpc,
            sweep_pc, sweep_todo, sweep_processed, sweep_failed, resp,
            fully_added, ever_added>>

stVars == <<st_resp, st_inventory, st_processed>>

tkVars == <<environ, dotenv_file, dotenv_ms_file, task_done, env_at_start,
            conn_env, connections>>

sqVars == <<sq_last, sq_repeat>>

pfVars == <<pf_apps, pf_subscribed, pf_next_id, pf_binaries, pf_manifest,
            pf_ops>>

nmVars == <<nm_name_file, nm_isolation_file, nm_op>>

vars == <<subscribed_tenants, tasks, lpc, pending, current_subscribers,
          last_subscribers, polls, rm_tenant, rm_local, is_closed, mpc,
          sweep_pc, sweep_todo, sweep_processed, sweep_failed, resp,
          fully_added, ever_added, st_resp, st_inventory, st_processed,
          environ, dotenv_file, dotenv_ms_file, task_done, env_at_start,
          conn_env, connections, pf_apps, pf_subscribed, pf_next_id,
          pf_binaries, pf_manifest, pf_ops,
          nm_name_file, nm_isolation_file, nm_op, sq_last, sq_repeat>>

listenerVars == <<lpc, pending, current_subscribers, last_subscribers, polls,
                  rm_tenant, rm_local>>

sweepVars == <<sweep_pc, sweep_todo, sweep_processed, sweep_failed>>

(* --------------------- registry update expressions -------------------- *)

\* A faulty variant of line 41: symmetric difference (^) in place of union (|).
AddResultToggle(registry, tenant) ==
    (registry \ {tenant}) \cup ({tenant} \ registry)

\* multi_tenant.py:41   subscribed_tenants | {tenant}
AddResult(registry, tenant) == registry \cup {tenant}

\* multi_tenant.py:51   subscribed_tenants - {tenant}
RemoveResult(registry, tenant) == registry \ {tenant}

(* ------------------------------ Init ---------------------------------- *)

NoResponse ==
    [route |-> "none", caller |-> NoCredentials, status |-> 0,
     tenant_id |-> NoCredentials, username |-> NoName, devices |-> {},
     subscribers |-> {}, fetched |-> {}]

NoCall == <<"none", NoCredentials>>

MtInit ==
    /\ subscribed_tenants = {}
    /\ tasks = {}
    /\ lpc = "wait"
    /\ pending = {}
    /\ current_subscribers = {}
    /\ last_subscribers = {}
    /\ polls = 0
    /\ rm_tenant = NoCredentials
    /\ rm_local = {}
    /\ is_closed = FALSE
    /\ mpc = "serving"
    /\ sweep_pc = "idle"
    /\ sweep_todo = {}
    /\ sweep_processed = {}
    /\ sweep_failed = {}
    /\ resp = NoResponse
    /\ fully_added = {}
    /\ ever_added = {}

StInit ==
    /\ st_resp = NoResponse
    /\ st_inventory = {}
    /\ st_processed = {}

SqInit ==
    /\ sq_last = NoCall
    /\ sq_repeat = FALSE

\* No task has run: an empty environment and no .env file.
TkIdle ==
    /\ environ = NoEnv
    /\ dotenv_file = NoFile
    /\ dotenv_ms_file = NoFile
    /\ task_done = "none"
    /\ env_at_start = NoEnv
    /\ conn_env = NoEnv
    /\ connections = 0

\* A platform without applications; no microservice_util function has been
\* called.
PfIdle ==
    /\ pf_apps = <<>>
    /\ pf_subscribed = {}
    /\ pf_next_id = 1
    /\ pf_binaries = {}
    /\ pf_manifest = <<>>
    /\ pf_ops = <<>>

\* The generated project: a default name and isolation level, no task run.
NoTask ==
    [task |-> "none", name |-> <<>>, accepted |-> FALSE, exit |-> 0,
     effects |-> {}]

NmIdle ==
    /\ nm_name_file = DefaultName
    /\ nm_isolation_file = "MULTI_TENANT"
    /\ nm_op = NoTask

Init == MtInit /\ StInit /\ SqInit /\ TkIdle /\ PfIdle /\ NmIdle

(* ----------------- subscription listener (c8y_tk.app) ----------------- *)

Added(new, old) == new \ old

Removed(new, old) == old \ new

\* One poll: fetch the current subscribers and diff them against the set the
\* previous poll observed.
ListenerPoll(P) ==
    /\ lpc = "wait"
    /\ ~is_closed
    /\ polls < MaxPolls
    /\ polls' = polls + 1
    /\ current_subscribers' = P
    /\ pending' = {<<"added", t>> : t \in Added(P, last_subscribers)}
                  \cup {<<"removed", t>> : t \in Removed(P, last_subscribers)}
    /\ lpc' = "dispatch"
    /\ UNCHANGED <<last_subscribers, rm_tenant, rm_local>>
    /\ UNCHANGED <<subscribed_tenants, tasks, is_closed, mpc, resp,
                   fully_added, ever_added>>
    /\ UNCHANGED sweepVars
    /\ UNCHANGED <<stVars, sqVars, tkVars, pfVars, nmVars>>

\* add_callback(add_subscriber, blocking=False, when="added"): the call is
\* handed to a worker thread and the listener goes on.
DispatchAdded(t) ==
    /\ lpc = "dispatch"
    /\ <<"added", t>> \in pending
    /\ pending' = pending \ {<<"added", t>>}
    /\ tasks' = tasks \cup {[tenant |-> t, poll |-> polls, pc |-> "queued",
                             local |-> {}]}
    /\ UNCHANGED <<lpc, current_subscribers, last_subscribers, polls,
                   rm_tenant, rm_local>>
    /\ UNCHANGED <<subscribed_tenants, is_closed, mpc, resp, fully_added,
                   ever_added>>
    /\ UNCHANGED sweepVars
    /\ UNCHANGED <<stVars, sqVars, tkVars, pfVars, nmVars>>

\* The poll's events are all dispatched: the poll result becomes the
\* previously observed set.
PollDone ==
    /\ lpc = "dispatch"
    /\ pending = {}
    /\ last_subscribers' = current_subscribers
    /\ lpc' = "wait"
    /\ UNCHANGED <<pending, current_subscribers, polls, rm_tenant, rm_local>>
    /\ UNCHANGED <<subscribed_tenants, tasks, is_closed, mpc, resp,
                   fully_added, ever_added>>
    /\ UNCHANGED sweepVars
    /\ UNCHANGED <<stVars, sqVars, tkVars, pfVars, nmVars>>

\* The polling loop sees the stop flag and ends.
ListenerExit ==
    /\ lpc = "wait"
    /\ is_closed
    /\ lpc' = "exited"
    /\ UNCHANGED <<pending, current_subscribers, last_subscribers, polls,
                   rm_tenant, rm_local>>
    /\ UNCHANGED <<subscribed_tenants, tasks, is_closed, mpc, resp,
                   fully_added, ever_added>>
    /\ UNCHANGED sweepVars
    /\ UNCHANGED <<stVars, sqVars, tkVars, pfVars, nmVars>>

(* ------------------- add_subscriber / remove_subscriber ---------------- *)

\* add_subscriber on a worker thread, first half of line 41: the global is read.
AddRead(task) ==
    /\ task \in tasks
    /\ task.pc = "queued"
    /\ tasks' = (tasks \ {task})
                \cup {[task EXCEPT !.pc = "read", !.local = subscribed_tenants]}
    /\ ever_added' = ever_added \cup {task.tenant}
    /\ UNCHANGED <<subscribed_tenants, is_closed, mpc, resp, fully_added>>
    /\ UNCHANGED listenerVars
    /\ UNCHANGED sweepVars
    /\ UNCHANGED <<stVars, sqVars, tkVars, pfVars, nmVars>>

\* add_subscriber, second half of line 41: the new set is bound to the global,
\* and the call returns.
AddWrite(task) ==
    /\ task \in tasks
    /\ task.pc = "read"
    /\ subscribed_tenants' = AddResult(task.local, task.tenant)
    /\ tasks' = tasks \ {task}
    /\ fully_added' = fully_added \cup {task.tenant}
    /\ UNCHANGED <<is_closed, mpc, resp, ever_added>>
    /\ UNCHANGED listenerVars
    /\ UNCHANGED sweepVars
    /\ UNCHANGED <<stVars, sqVars, tkVars, pfVars, nmVars>>

\* add_callback(remove_subscriber, blocking=True, when="removed"): the listener
\* thread itself calls remove_subscriber; first half of line 51.
RemoveRead(t) ==
    /\ lpc = "dispatch"
    /\ <<"removed", t>> \in pending
    /\ pending' = pending \ {<<"removed", t>>}
    /\ lpc' = "remove"
    /\ rm_tenant' = t
    /\ rm_local' = subscribed_tenants
    /\ fully_added' = fully_added \ {t}
    /\ UNCHANGED <<current_subscribers, last_subscribers, polls>>
    /\ UNCHANGED <<subscribed_tenants, tasks, is_closed, mpc, resp, ever_added>>
    /\ UNCHANGED sweepVars
    /\ UNCHANGED <<stVars, sqVars, tkVars, pfVars, nmVars>>

\* remove_subscriber, second half of line 51, and the return to the listener.
RemoveWrite ==
    /\ lpc = "remove"
    /\ subscribed_tenants' = RemoveResult(rm_local, rm_tenant)
    /\ lpc' = "dispatch"
    /\ rm_tenant' = NoCredentials
    /\ rm_local' = {}
    /\ UNCHANGED <<pending, current_subscribers, last_subscribers, polls>>
    /\ UNCHANGED <<tasks, is_closed, mpc, resp, fully_added, ever_added>>
    /\ UNCHANGED sweepVars
    /\ UNCHANGED <<stVars, sqVars, tkVars, pfVars, nmVars>>

(* ------------------ process_subscribers (background job) --------------- *)

\* The scheduler fires the job; line 59 starts iterating the set object the
\* global is bound to at that moment.
TickStart ==
    /\ mpc \in {"serving", "stop", "sched"}
    /\ sweep_pc = "idle"
    /\ sweep_pc' = "running"
    /\ sweep_todo' = subscribed_tenants
    /\ sweep_processed' = {}
    /\ sweep_failed' = {}
    /\ UNCHANGED <<subscribed_tenants, tasks, is_closed, mpc, resp,
                   fully_added, ever_added>>
    /\ UNCHANGED listenerVars
    /\ UNCHANGED <<stVars, sqVars, tkVars, pfVars, nmVars>>

\* A faulty variant of the loop body: it drops a tenant from the registry when
\* its processing fails.
SweepStepDropsFailed(t, outcome) ==
    /\ sweep_pc = "running"
    /\ t \in sweep_todo
    /\ sweep_todo' = sweep_todo \ {t}
    /\ IF outcome = "ok"
       THEN /\ sweep_processed' = sweep_processed \cup {t}
            /\ UNCHANGED <<sweep_pc, sweep_failed, subscribed_tenants>>
       ELSE /\ sweep_failed' = {t}
            /\ sweep_pc' = "idle"
            /\ subscribed_tenants' = subscribed_tenants \ {t}
            /\ UNCHANGED sweep_processed
    /\ UNCHANGED <<tasks, is_closed, mpc, resp, fully_added, ever_added>>
    /\ UNCHANGED listenerVars
    /\ UNCHANGED <<stVars, sqVars, tkVars, pfVars, nmVars>>

\* One iteration of the loop, lines 60-62. get_tenant_instance (outcome
\* "no_client") or get_count (outcome "no_count") may raise; nothing in the
\* function catches it, so the exception ends the job run and the tenants not
\* yet visited stay unvisited.
SweepStep(t, outcome) ==
    /\ sweep_pc = "running"
    /\ t \in sweep_todo
    /\ sweep_todo' = sweep_todo \ {t}
    /\ IF outcome = "ok"
       THEN /\ sweep_processed' = sweep_processed \cup {t}
            /\ UNCHANGED <<sweep_pc, sweep_failed>>
       ELSE /\ sweep_failed' = {t}
            /\ sweep_pc' = "idle"
            /\ UNCHANGED sweep_processed
    /\ UNCHANGED <<subscribed_tenants, tasks, is_closed, mpc, resp,
                   fully_added, ever_added>>
    /\ UNCHANGED listenerVars
    /\ UNCHANGED <<stVars, sqVars, tkVars, pfVars, nmVars>>

\* The iterator is exhausted: the job run ends normally.
SweepEnd ==
    /\ sweep_pc = "running"
    /\ sweep_todo = {}
    /\ sweep_pc' = "idle"
    /\ UNCHANGED <<sweep_todo, sweep_processed, sweep_failed>>
    /\ UNCHANGED <<subscribed_tenants, tasks, is_closed, mpc, resp,
                   fully_added, ever_added>>
    /\ UNCHANGED listenerVars
    /\ UNCHANGED <<stVars, sqVars, tkVars, pfVars, nmVars>>

SweepOutcomes == {"ok", "no_client", "no_count"}

(* --------------------- HTTP handlers (multi-tenant) -------------------- *)

Respond(r) ==
    /\ mpc = "serving"
    /\ resp' = r
    /\ UNCHANGED <<subscribed_tenants, tasks, is_closed, mpc, fully_added,
                   ever_added>>
    /\ UNCHANGED listenerVars
    /\ UNCHANGED sweepVars
    /\ UNCHANGED <<stVars, sqVars, tkVars, pfVars, nmVars>>

\* An unhandled exception in a handler: the framework answers 500.
ServerError(route, caller) ==
    [NoResponse EXCEPT !.route = route, !.caller = caller, !.status = 500]

\* /health
health == Respond([NoResponse EXCEPT !.route = "health", !.status = 200])

\* /debug
debug ==
    Respond([NoResponse EXCEPT !.route = "debug", !.status = 200,
                               !.subscribers = subscribed_tenants])

\* /tenant: the tenant-scoped (service user) client of the caller's tenant.
tenant_info(caller) ==
    Respond(IF caller = NoCredentials
            THEN ServerError("tenant", caller)
            ELSE [NoResponse EXCEPT !.route = "tenant", !.caller = caller,
                                    !.status = 200, !.tenant_id = caller,
                                    !.username = ServiceName(caller),
                                    !.devices = ServiceDevices(caller)])

\* /subscribers. Line 139 builds the 403 answer and drops it (no return), so
\* the handler goes on for every caller with valid credentials. `failing` is
\* the tenant whose client or device count cannot be obtained, if any;
\* `visited` are the tenants the loop got through before reaching it.
subscriber_info(caller, failing, visited) ==
    Respond(IF caller = NoCredentials
            THEN ServerError("subscribers", caller)
            ELSE IF failing \in subscribed_tenants
            THEN [ServerError("subscribers", caller) EXCEPT
                      !.fetched = visited \cup {failing}]
            ELSE [NoResponse EXCEPT !.route = "subscribers", !.caller = caller,
                                    !.status = 200,
                                    !.subscribers = subscribed_tenants,
                                    !.fetched = subscribed_tenants])

\* The platform failures a /subscribers request can meet: none (NoCredentials
\* stands for "no tenant fails"), or one tenant of the registry whose client or
\* device count cannot be obtained, after the loop got through `visited`.
FailingFor(caller) ==
    IF caller = NoCredentials
    THEN {NoCredentials}
    ELSE subscribed_tenants \cup {NoCredentials}

VisitedBefore(failing) ==
    IF failing \in subscribed_tenants
    THEN SUBSET (subscribed_tenants \ {failing})
    ELSE {{}}

\* /user: the user-scoped client of the caller.
user_info(caller) ==
    Respond(IF caller = NoCredentials
            THEN ServerError("user", caller)
            ELSE [NoResponse EXCEPT !.route = "user", !.caller = caller,
                                    !.status = 200,
                                    !.username = UserName(caller),
                                    !.devices = UserDevices(caller)])

(* -------------------------- main program ------------------------------ *)

\* webapp.run returns (line 170).
WebExit ==
    /\ mpc = "serving"
    /\ mpc' = "stop"
    /\ UNCHANGED <<subscribed_tenants, tasks, is_closed, resp, fully_added,
                   ever_added>>
    /\ UNCHANGED listenerVars
    /\ UNCHANGED sweepVars
    /\ UNCHANGED <<stVars, sqVars, tkVars, pfVars, nmVars>>

\* subscription_listener.stop() (line 172): signal stop.
ListenerStop ==
    /\ mpc = "stop"
    /\ is_closed' = TRUE
    /\ mpc' = "sched"
    /\ UNCHANGED <<subscribed_tenants, tasks, resp, fully_added, ever_added>>
    /\ UNCHANGED listenerVars
    /\ UNCHANGED sweepVars
    /\ UNCHANGED <<stVars, sqVars, tkVars, pfVars, nmVars>>

\* process_subscribers_scheduler.shutdown(wait=True) (line 174): returns once
\* no job run is in progress; no further run starts.
SchedulerShutdown ==
    /\ mpc = "sched"
    /\ sweep_pc = "idle"
    /\ mpc' = "lshutdown"
    /\ UNCHANGED <<subscribed_tenants, tasks, is_closed, resp, fully_added,
                   ever_added>>
    /\ UNCHANGED listenerVars
    /\ UNCHANGED sweepVars
    /\ UNCHANGED <<stVars, sqVars, tkVars, pfVars, nmVars>>

\* subscription_listener.shutdown(timeout=None) (line 175): returns once the
\* listener thread has ended and every callback handed to a worker is done.
ListenerShutdown ==
    /\ mpc = "lshutdown"
    /\ lpc = "exited"
    /\ tasks = {}
    /\ mpc' = "done"
    /\ UNCHANGED <<subscribed_tenants, tasks, is_closed, resp, fully_added,
                   ever_added>>
    /\ UNCHANGED listenerVars
    /\ UNCHANGED sweepVars
    /\ UNCHANGED <<stVars, sqVars, tkVars, pfVars, nmVars>>

(* ------------------ the multi-tenant service as a whole ---------------- *)

Next ==
    \/ \E P \in SUBSET Tenants : ListenerPoll(P)
    \/ \E t \in Tenants : DispatchAdded(t)
    \/ \E t \in Tenants : RemoveRead(t)
    \/ RemoveWrite
    \/ PollDone
    \/ ListenerExit
    \/ \E task \in tasks : AddRead(task)
    \/ \E task \in tasks : AddWrite(task)
    \/ TickStart
    \/ \E t \in Tenants, outcome \in SweepOutcomes : SweepStep(t, outcome)
    \/ SweepEnd
    \/ health
    \/ debug
    \/ \E caller \in Callers : tenant_info(caller)
    \/ \E caller \in Callers :
          \E failing \in FailingFor(caller) :
             \E visited \in VisitedBefore(failing) :
                subscriber_info(caller, failing, visited)
    \/ \E caller \in Callers : user_info(caller)
    \/ WebExit
    \/ ListenerStop
    \/ SchedulerShutdown
    \/ ListenerShutdown

Spec == Init /\ [][Next]_vars

(* --------------- the callbacks called one after the other -------------- *)

\* add_subscriber(tenant), lines 35-42, run from call to return with no other
\* thread in between.
add_subscriber(tenant) ==
    /\ subscribed_tenants' = AddResult(subscribed_tenants, tenant)
    /\ sq_repeat' = (sq_last = <<"add", tenant>>)
    /\ sq_last' = <<"add", tenant>>
    /\ UNCHANGED <<tasks, is_closed, mpc, resp, fully_added, ever_added>>
    /\ UNCHANGED listenerVars
    /\ UNCHANGED sweepVars
    /\ UNCHANGED <<stVars, tkVars, pfVars, nmVars>>

\* remove_subscriber(tenant), lines 45-52, run from call to return.
remove_subscriber(tenant) ==
    /\ subscribed_tenants' = RemoveResult(subscribed_tenants, tenant)
    /\ sq_repeat' = (sq_last = <<"remove", tenant>>)
    /\ sq_last' = <<"remove", tenant>>
    /\ UNCHANGED <<tasks, is_closed, mpc, resp, fully_added, ever_added>>
    /\ UNCHANGED listenerVars
    /\ UNCHANGED sweepVars
    /\ UNCHANGED <<stVars, tkVars, pfVars, nmVars>>

\* The callbacks called in any order, one at a time, beside the readers of the
\* registry (the background job and the HTTP handlers).
SqNext ==
    \/ \E t \in Tenants : add_subscriber(t)
    \/ \E t \in Tenants : remove_subscriber(t)
    \/ TickStart
    \/ \E t \in Tenants, outcome \in SweepOutcomes : SweepStep(t, outcome)
    \/ SweepEnd
    \/ health
    \/ debug
    \/ \E caller \in Callers : tenant_info(caller)
    \/ \E caller \in Callers :
          \E failing \in FailingFor(caller) :
             \E visited \in VisitedBefore(failing) :
                subscriber_info(caller, failing, visited)
    \/ \E caller \in Callers : user_info(caller)

SpecSeq == Init /\ [][SqNext]_vars

(* ------------------- simple_tenant.py (single tenant) ------------------ *)

StDevices == 1..MaxDevices

StUsers == 1..MaxUsers

StCallers == StUsers \cup {NoCredentials}

\* The microservice's own service user sees the whole inventory; calling user
\* u sees the devices its inventory roles allow, here those numbered up to u.
StServiceName == <<"service", 0>>

StUserName(u) == <<"user", u>>

StServiceDevices == st_inventory

StUserDevices(u) == {d \in st_inventory : d <= u}

\* The platform: devices come and go.
StDeviceCreated(d) ==
    /\ d \notin st_inventory
    /\ st_inventory' = st_inventory \cup {d}
    /\ UNCHANGED <<st_resp, st_processed>>
    /\ UNCHANGED <<mtVars, sqVars, tkVars, pfVars, nmVars>>

StDeviceDeleted(d) ==
    /\ d \in st_inventory
    /\ st_inventory' = st_inventory \ {d}
    /\ UNCHANGED <<st_resp, st_processed>>
    /\ UNCHANGED <<mtVars, sqVars, tkVars, pfVars, nmVars>>

\* process_devices, lines 38-42: logs every device the service user sees.
process_devices ==
    /\ st_processed' = StServiceDevices
    /\ UNCHANGED <<st_resp, st_inventory>>
    /\ UNCHANGED <<mtVars, sqVars, tkVars, pfVars, nmVars>>

StRespond(r) ==
    /\ st_resp' = r
    /\ UNCHANGED <<st_inventory, st_processed>>
    /\ UNCHANGED <<mtVars, sqVars, tkVars, pfVars, nmVars>>

\* /health, lines 59-62
st_health == StRespond([NoResponse EXCEPT !.route = "health", !.status = 200])

\* /debug, lines 65-71
st_debug == StRespond([NoResponse EXCEPT !.route = "debug", !.status = 200])

\* /user, lines 74-84. Line 77 obtains the caller's client as user_c8y (and
\* raises without valid credentials); lines 78-83 then read the username and
\* the inventory from c8y, the service user's client.
st_user_info(caller) ==
    StRespond(IF caller = NoCredentials
              THEN ServerError("user", caller)
              ELSE [NoResponse EXCEPT !.route = "user", !.caller = caller,
                                      !.status = 200,
                                      !.username = StServiceName,
                                      !.devices = StServiceDevices])

\* /events/<device_id>, lines 87-101
st_event_info(device_id) ==
    StRespond(IF device_id \notin st_inventory
              THEN [NoResponse EXCEPT !.route = "events", !.status = 404]
              ELSE [NoResponse EXCEPT !.route = "events", !.status = 200,
                                      !.devices = {device_id}])

StNext ==
    \/ \E d \in StDevices : StDeviceCreated(d)
    \/ \E d \in StDevices : StDeviceDeleted(d)
    \/ process_devices
    \/ st_health
    \/ st_debug
    \/ \E caller \in StCallers : st_user_info(caller)
    \/ \E d \in StDevices : st_event_info(d)

SpecSimple == Init /\ [][StNext]_vars

(* ------------- microservice_util.py against the platform --------------- *)

SeqsUpTo(S, n) == UNION {[1..k -> S] : k \in 0..n}

RoleLists == SeqsUpTo(Roles, MaxRoleLen)

\* set(required_roles)
ToSet(list) == {list[i] : i \in 1..Len(list)}

\* c8y.applications.get_all(name=name): the applications of that name, in the
\* platform's order.
get_all(apps, name) == SelectSeq(apps, LAMBDA a : a.name = name)

\* app.delete(): delete by id.
delete(apps, id) == SelectSeq(apps, LAMBDA a : a.id # id)

\* app.required_roles = required_roles; app.update()
update(apps, id, required_roles) ==
    [i \in 1..Len(apps) |->
        IF apps[i].id = id
        THEN [apps[i] EXCEPT !.roles = required_roles]
        ELSE apps[i]]

\* A faulty variant of line 39: the lists are compared by their lengths.
RolesSameLength(app_roles, required_roles) ==
    Len(app_roles) = Len(required_roles)

\* microservice_util.py:39  set(app.required_roles) == set(required_roles)
RolesUpToDate(app_roles, required_roles) ==
    ToSet(app_roles) = ToSet(required_roles)

\* The platform as the functions find it.
Platform ==
    [apps |-> pf_apps, subscribed |-> pf_subscribed, next_id |-> pf_next_id,
     binaries |-> pf_binaries]

\* Whether the task before this one called register_microservice(name), and
\* after it at most upload_microservice.
RepeatsRegister(name) ==
    /\ pf_ops # <<>>
    /\ pf_ops[1].op = "register"
    /\ pf_ops[1].name = name

\* The platform creates applications up to its capacity.
CanRegister(pf, name) ==
    \/ get_all(pf.apps, name) # <<>>
    \/ Len(pf.apps) < MaxApps /\ pf.next_id <= MaxAppId

\* register_microservice(name), lines 14-61: the platform after the call, and
\* the call's record.
register_microservice(pf, name) ==
    LET apps == get_all(pf.apps, name)
        call(id, requests) ==
            [op |-> "register", name |-> name, matches |-> Len(apps),
             result |-> "ok", app |-> id, requests |-> requests,
             repeat |-> RepeatsRegister(name)]
    IN  IF apps # <<>>
        THEN LET app == apps[1] IN
             IF RolesUpToDate(app.roles, pf_manifest)
             THEN [pf |-> pf, op |-> call(app.id, {})]
             ELSE [pf |-> [pf EXCEPT
                             !.apps = update(pf.apps, app.id, pf_manifest)],
                   op |-> call(app.id, {"update"})]
        ELSE [pf |-> [pf EXCEPT
                        !.apps = Append(pf.apps, [id |-> pf.next_id,
                                                  name |-> name,
                                                  roles |-> pf_manifest]),
                        !.subscribed = pf.subscribed \cup {pf.next_id},
                        !.next_id = pf.next_id + 1],
              op |-> call(pf.next_id, {"create", "subscribe"})]

\* A faulty variant of unregister_microservice: every application of that
\* name is deleted.
unregister_all(pf, name) ==
    LET apps == get_all(pf.apps, name)
        ids == {apps[i].id : i \in 1..Len(apps)}
    IN  [pf |-> [pf EXCEPT
                   !.apps = SelectSeq(pf.apps, LAMBDA a : a.name # name),
                   !.subscribed = pf.subscribed \ ids,
                   !.binaries = pf.binaries \ ids],
         op |-> [op |-> "unregister", name |-> name, matches |-> Len(apps),
                 result |-> IF apps = <<>> THEN "LookupError" ELSE "ok",
                 app |-> IF apps = <<>> THEN 0 ELSE apps[1].id,
                 requests |-> IF apps = <<>> THEN {} ELSE {"delete"},
                 repeat |-> FALSE]]

\* unregister_microservice(name), lines 64-87: get_all(name=name)[0] raises
\* IndexError when there is none, which becomes a LookupError; else the first
\* one is deleted, and with it its binary and the tenant's subscription to it.
unregister_microservice(pf, name) ==
    LET apps == get_all(pf.apps, name) IN
    IF apps = <<>>
    THEN [pf |-> pf,
          op |-> [op |-> "unregister", name |-> name, matches |-> 0,
                  result |-> "LookupError", app |-> 0, requests |-> {},
                  repeat |-> FALSE]]
    ELSE [pf |-> [pf EXCEPT
                    !.apps = delete(pf.apps, apps[1].id),
                    !.subscribed = pf.subscribed \ {apps[1].id},
                    !.binaries = pf.binaries \ {apps[1].id}],
          op |-> [op |-> "unregister", name |-> name, matches |-> Len(apps),
                  result |-> "ok", app |-> apps[1].id,
                  requests |-> {"delete"}, repeat |-> FALSE]]

\* upload_microservice(name, file), lines 90-109: the binary is attached to
\* the first application of that name; RuntimeError when there is none.
upload_microservice(pf, name) ==
    LET apps == get_all(pf.apps, name) IN
    IF apps = <<>>
    THEN [pf |-> pf,
          op |-> [op |-> "upload", name |-> name, matches |-> 0,
                  result |-> "RuntimeError", app |-> 0, requests |-> {},
                  repeat |-> FALSE]]
    ELSE [pf |-> [pf EXCEPT !.binaries = pf.binaries \cup {apps[1].id}],
          op |-> [op |-> "upload", name |-> name, matches |-> Len(apps),
                  result |-> "ok", app |-> apps[1].id,
                  requests |-> {"upload_attachment"}, repeat |-> FALSE]]

\* get_bootstrap_credentials(name), lines 112-138: LookupError when there is
\* no application of that name; else the bootstrap user of the first one is
\* read.
get_bootstrap_credentials(pf, name) ==
    LET apps == get_all(pf.apps, name) IN
    [pf |-> pf,
     op |-> IF apps = <<>>
            THEN [op |-> "credentials", name |-> name, matches |-> 0,
                  result |-> "LookupError", app |-> 0, requests |-> {},
                  repeat |-> FALSE]
            ELSE [op |-> "credentials", name |-> name, matches |-> Len(apps),
                  result |-> "ok", app |-> apps[1].id,
                  requests |-> {"bootstrapUser"}, repeat |-> FALSE]]

(* ---------------- tasks.py: name validation, init, build --------------- *)

Letters == {"a"}

Digits == {"1"}

\* The strings a name can be given as, the empty string among them.
Names == SeqsUpTo(Chars, MaxNameLen)

\* Isolation levels as they can be given or typed; "" is none.
Isolations == {"", "PER_TENANT", "SINGLE"}

\* re.match(r'[a-zA-Z]+[a-zA-Z0-9\-]+', name): the pattern matches at the
\* start of the name, i letters and then j letters, digits or dashes; what
\* follows the match is not looked at.
NameMatches(name) ==
    \E i \in 1..Len(name) : \E j \in 1..(Len(name) - i) :
        /\ \A k \in 1..i : name[k] \in Letters
        /\ \A k \in (i + 1)..(i + j) : name[k] \in Letters \cup Digits \cup {"-"}

\* assert_isolation, lines 77-81.
IsolationValid(isolation) == isolation \in {"MULTI_TENANT", "PER_TENANT"}

\* x or y, on strings: the first that is not empty.
OrElse(x, y) == IF Len(x) > 0 THEN x ELSE y

OrElseStr(x, y) == IF x # "" THEN x ELSE y

\* invoke init, lines 132-147. The name is the one given, else the one typed,
\* else the content of MICROSERVICE_NAME; likewise the isolation level.
\* assert_name and assert_isolation exit with status 2.
init(given, typed, isolation_given, isolation_typed) ==
    LET name == OrElse(OrElse(given, typed), nm_name_file)
        isolation == OrElseStr(OrElseStr(isolation_given, isolation_typed),
                               nm_isolation_file)
    IN  IF ~NameMatches(name)
        THEN /\ nm_op' = [task |-> "init", name |-> name, accepted |-> FALSE,
                          exit |-> 2, effects |-> {}]
             /\ UNCHANGED <<nm_name_file, nm_isolation_file>>
        ELSE IF ~IsolationValid(isolation)
        THEN /\ nm_op' = [task |-> "init", name |-> name, accepted |-> TRUE,
                          exit |-> 2, effects |-> {}]
             /\ UNCHANGED <<nm_name_file, nm_isolation_file>>
        ELSE /\ nm_name_file' = name
             /\ nm_isolation_file' = isolation
             /\ nm_op' = [task |-> "init", name |-> name, accepted |-> TRUE,
                          exit |-> 0,
                          effects |-> {"MICROSERVICE_NAME", "ISOLATION"}]

\* invoke build, lines 179-189: the name is checked, then the content of
\* ISOLATION, then build.sh is run, which succeeds or fails.
build(name, script_exit) ==
    /\ nm_op' =
          IF ~NameMatches(name)
          THEN [task |-> "build", name |-> name, accepted |-> FALSE,
                exit |-> 2, effects |-> {}]
          ELSE IF ~IsolationValid(nm_isolation_file)
          THEN [task |-> "build", name |-> name, accepted |-> TRUE,
                exit |-> 2, effects |-> {}]
          ELSE [task |-> "build", name |-> name, accepted |-> TRUE,
                exit |-> script_exit, effects |-> {"build.sh"}]
    /\ UNCHANGED <<nm_name_file, nm_isolation_file>>

\* The task leaves the connection environment and the platform alone.
NoPlatformCall ==
    /\ environ' = env_at_start
    /\ connections' = 0
    /\ pf_ops' = <<>>
    /\ UNCHANGED <<dotenv_file, dotenv_ms_file, env_at_start, conn_env, pf_apps,
                   pf_subscribed, pf_next_id, pf_binaries, pf_manifest>>

InitTask ==
    /\ \E given \in Names :
       \E typed \in IF given = <<>> THEN Names ELSE {<<>>} :
       \E isolation_given \in Isolations :
       \E isolation_typed \in IF isolation_given = "" THEN Isolations ELSE {""} :
            init(given, typed, isolation_given, isolation_typed)
    /\ task_done' = "init"
    /\ NoPlatformCall
    /\ UNCHANGED <<mtVars, stVars, sqVars>>

\* name defaults to the content of MICROSERVICE_NAME.
BuildTask ==
    /\ \E name \in Names \cup {nm_name_file} : \E script_exit \in {0, 1} :
            build(name, script_exit)
    /\ task_done' = "build"
    /\ NoPlatformCall
    /\ UNCHANGED <<mtVars, stVars, sqVars>>

NmNext == InitTask \/ BuildTask

SpecNames == Init /\ [][NmNext]_vars

(* --------------- tasks.py: the tasks that connect ----------------------- *)

\* k.startswith('C8Y_')
IsC8yVar(k) == k[1] = "C8Y_"

\* tasks.py:110  the C8Y_ variables present in the environment
c8y_vars(env) == {k \in EnvNames : IsC8yVar(k) /\ env[k] # Unset}

\* dotenv.load_dotenv() with its defaults: the variables of the .env file, if
\* there is one, are set unless the environment already has them.
load_dotenv(env, file) ==
    IF file.exists
    THEN [k \in EnvNames |-> IF env[k] # Unset THEN env[k] ELSE file.vars[k]]
    ELSE env

\* load_env, tasks.py:101-122: the environment the with-block runs in.
load_env(env, file) ==
    IF file.exists /\ c8y_vars(env) = {}
    THEN load_dotenv(env, file)
    ELSE env

\* The .env file is read again where the platform connection is built:
\* microservice_util.py:25 (register_microservice), :76
\* (unregister_microservice), :100 (upload_microservice), :127
\* (get_bootstrap_credentials); SimpleCumulocityApp() follows.
connect(env, file) == load_dotenv(env, file)

\* The names a task is given: any, by default the content of
\* MICROSERVICE_NAME.
TaskNames == AppNames \cup {nm_name_file}

\* The files write_env is told to write.
EnvFiles == {".env-ms", ".env"}

\* The task has called microservice_util functions, the last of which left
\* the platform as pf, in the environment env.
Called(env, n, pf, ops) ==
    /\ environ' = env
    /\ conn_env' = env
    /\ connections' = n
    /\ pf_apps' = pf.apps
    /\ pf_subscribed' = pf.subscribed
    /\ pf_next_id' = pf.next_id
    /\ pf_binaries' = pf.binaries
    /\ pf_ops' = ops
    /\ UNCHANGED <<env_at_start, pf_manifest>>

\* No init and no build in this task.
NoBuild ==
    /\ nm_op' = NoTask
    /\ UNCHANGED <<nm_name_file, nm_isolation_file>>

\* register, lines 196-200: load_env, then register_microservice in its
\* block.
register(name) ==
    LET env == connect(load_env(env_at_start, dotenv_file), dotenv_file)
        r == register_microservice(Platform, name)
    IN  /\ CanRegister(Platform, name)
        /\ task_done' = "register"
        /\ Called(env, 1, r.pf, <<r.op>>)
        /\ NoBuild
        /\ UNCHANGED <<dotenv_file, dotenv_ms_file>>
        /\ UNCHANGED <<mtVars, stVars, sqVars>>

\* deregister, lines 207-211.
deregister(name) ==
    LET env == connect(load_env(env_at_start, dotenv_file), dotenv_file)
        r == unregister_microservice(Platform, name)
    IN  /\ task_done' = "deregister"
        /\ Called(env, 1, r.pf, <<r.op>>)
        /\ NoBuild
        /\ UNCHANGED <<dotenv_file, dotenv_ms_file>>
        /\ UNCHANGED <<mtVars, stVars, sqVars>>

\* upload, lines 221-227: build first; when assert_name or assert_isolation
\* exits or build.sh fails, the task ends there. Else load_env, then
\* register_microservice and upload_microservice, each with a connection of
\* its own.
upload(name, script_exit) ==
    LET env == connect(load_env(env_at_start, dotenv_file), dotenv_file)
        r == register_microservice(Platform, name)
        u == upload_microservice(r.pf, name)
    IN  /\ task_done' = "upload"
        /\ build(name, script_exit)
        /\ IF nm_op'.exit # 0
           THEN NoPlatformCall
           ELSE /\ CanRegister(Platform, name)
                /\ Called(env, 2, u.pf, <<r.op, u.op>>)
                /\ UNCHANGED <<dotenv_file, dotenv_ms_file>>
        /\ UNCHANGED <<mtVars, stVars, sqVars>>

\* print_env, lines 240-248: get_bootstrap_credentials without load_env.
print_env(name) ==
    LET env == connect(env_at_start, dotenv_file)
        r == get_bootstrap_credentials(Platform, name)
    IN  /\ task_done' = "print_env"
        /\ Called(env, 1, r.pf, <<r.op>>)
        /\ NoBuild
        /\ UNCHANGED <<dotenv_file, dotenv_ms_file>>
        /\ UNCHANGED <<mtVars, stVars, sqVars>>

\* c8y.base_url, microservice_util.py:138: the connection's base URL, which
\* is C8Y_BASEURL where the environment has it, else whatever the connection
\* was built with.
base_urls(env) ==
    IF env[<<"C8Y_", "BASEURL">>] # Unset
    THEN {env[<<"C8Y_", "BASEURL">>]}
    ELSE EnvValues

\* What write_env writes, lines 263-268, as far as the variables followed
\* here go: the connection's base URL and the tenant of the platform's
\* bootstrapUser answer; with MULTI_TENANT the tenant goes under
\* C8Y_BOOTSTRAP_TENANT instead.
written_env(base_url, tenant, isolation) ==
    [exists |-> TRUE,
     vars |-> [k \in EnvNames |->
                 IF k = <<"C8Y_", "BASEURL">> THEN base_url
                 ELSE IF k = <<"C8Y_", "TENANT">> /\ isolation # "MULTI_TENANT"
                 THEN tenant
                 ELSE Unset]]

\* write_env, lines 256-268: load_env, get_bootstrap_credentials, then the
\* file is written; a LookupError ends the task before that.
write_env(name, file, base_url, tenant) ==
    LET env == connect(load_env(env_at_start, dotenv_file), dotenv_file)
        r == get_bootstrap_credentials(Platform, name)
        written == written_env(base_url, tenant, nm_isolation_file)
    IN  /\ base_url \in base_urls(env)
        /\ task_done' = "write_env"
        /\ Called(env, 1, r.pf, <<r.op>>)
        /\ NoBuild
        /\ IF r.op.result # "ok"
           THEN UNCHANGED <<dotenv_file, dotenv_ms_file>>
           ELSE IF file = ".env"
           THEN /\ dotenv_file' = written
                /\ UNCHANGED dotenv_ms_file
           ELSE /\ dotenv_ms_file' = written
                /\ UNCHANGED dotenv_file
        /\ UNCHANGED <<mtVars, stVars, sqVars>>

RegisterTask == \E name \in TaskNames : register(name)

DeregisterTask == \E name \in TaskNames : deregister(name)

UploadTask == \E name \in TaskNames : \E script_exit \in {0, 1} :
                  upload(name, script_exit)

PrintEnvTask == \E name \in TaskNames : print_env(name)

\* The base URL is the connection's, the tenant the one the platform
\* answers with.
WriteEnvTask == \E name \in TaskNames : \E file \in EnvFiles :
                \E base_url \in EnvValues : \E tenant \in EnvValues :
                    write_env(name, file, base_url, tenant)

\* A task starts in any environment, with or without a .env file.
TkInit ==
    /\ env_at_start \in Environments
    /\ environ = env_at_start
    /\ dotenv_file \in DotenvFiles
    /\ dotenv_ms_file = NoFile
    /\ task_done = "none"
    /\ conn_env = NoEnv
    /\ connections = 0

\* One task, in any environment.
TkNext ==
    \/ task_done = "none" /\ RegisterTask
    \/ task_done = "none" /\ DeregisterTask
    \/ task_done = "none" /\ UploadTask
    \/ task_done = "none" /\ PrintEnvTask
    \/ task_done = "none" /\ WriteEnvTask

\* The microservice is registered already, or the platform has no
\* application; the manifest requires no roles.
RegisteredOnce == <<[id |-> 1, name |-> DefaultName, roles |-> <<>>]>>

TkPlatformInit ==
    /\ pf_apps \in {<<>>, RegisteredOnce}
    /\ pf_subscribed = {pf_apps[i].id : i \in 1..Len(pf_apps)}
    /\ pf_next_id = Len(pf_apps) + 1
    /\ pf_binaries = {}
    /\ pf_manifest = <<>>
    /\ pf_ops = <<>>

\* The project is initialised with either isolation level.
TkProjectInit ==
    /\ nm_name_file = DefaultName
    /\ nm_isolation_file \in {"MULTI_TENANT", "PER_TENANT"}
    /\ nm_op = NoTask

TaskInit ==
    MtInit /\ StInit /\ SqInit /\ TkInit /\ TkPlatformInit /\ TkProjectInit

SpecTasks == TaskInit /\ [][TkNext]_vars

\* The platform holds any applications, with ids in the order they were
\* created: microservices registered earlier under the generated name, with
\* any role list, and foreign applications, which require no roles.
AppKinds ==
    {[name |-> DefaultName, roles |-> r] : r \in RoleLists}
        \cup {[name |-> ForeignName, roles |-> <<>>]}

Applications(n) ==
    {[i \in 1..Len(kinds) |->
        [id |-> i, name |-> kinds[i].name, roles |-> kinds[i].roles]] :
            kinds \in SeqsUpTo(AppKinds, n)}

PfInit ==
    /\ pf_apps \in Applications(MaxApps)
    /\ pf_subscribed = {pf_apps[i].id : i \in 1..Len(pf_apps)}
    /\ pf_next_id = Len(pf_apps) + 1
    /\ pf_binaries = {}
    /\ pf_manifest \in RoleLists
    /\ pf_ops = <<>>

\* The tasks that call the platform, one after the other, any number of
\* times, in an empty environment without .env files.
PfNext ==
    \/ RegisterTask
    \/ DeregisterTask
    \/ UploadTask
    \/ PrintEnvTask

PlatformInit == MtInit /\ StInit /\ SqInit /\ TkIdle /\ PfInit /\ NmIdle

SpecPlatform == PlatformInit /\ [][PfNext]_vars

(* ============================== claims ================================ *)

(* C1: every /subscribers request whose caller's tenant is not the bootstrap *)
(* (provider) tenant is answered 403, the answer lists no subscriber, and no *)
(* tenant client is obtained for it.                                         *)
C1_SubscribersForbiddenForOthers ==
    (resp.route = "subscribers" /\ resp.caller \in Tenants \ {BootstrapTenant})
        => /\ resp.status = 403
           /\ resp.subscribers = {}
           /\ resp.fetched = {}

(* C2: once every callback of the polls made so far has run, the registry   *)
(* equals the tenant set of the last poll.                                   *)
AllCallbacksRun == lpc \in {"wait", "exited"} /\ tasks = {}

C2_RegistryEqualsLastPoll ==
    (polls >= 1 /\ AllCallbacksRun) => subscribed_tenants = last_subscribers

(* C3: whatever a reader (process_subscribers, /debug, /subscribers) reads   *)
(* as the registry holds no tenant that was never added, and holds every     *)
(* tenant whose add_subscriber call had returned before the read and that    *)
(* was not removed since.                                                    *)
ReaderSees(view) ==
    /\ view \subseteq ever_added
    /\ fully_added \subseteq view

C3_ReadersSeeEveryAddedTenant ==
    [][/\ debug => ReaderSees(resp'.subscribers)
       /\ TickStart => ReaderSees(sweep_todo')
       /\ (resp'.status = 200 /\ \E caller \in Callers :
               subscriber_info(caller, NoCredentials, {}))
              => ReaderSees(resp'.subscribers)]_vars

(* C4: when a tick of process_subscribers has ended, every tenant of the set *)
(* it iterated was visited: the one that failed, if any, and all the others. *)
C4_SweepVisitsEveryTenant ==
    sweep_pc = "idle" => sweep_todo = {}

(* C5: a /user request with valid credentials is answered with the calling   *)
(* user's username and the devices the calling user sees, in the multi-tenant *)
(* and in the single-tenant service.                                          *)
C5_UserInfoAnswersForCaller ==
    [][/\ \A caller \in Tenants :
             user_info(caller)
                => /\ resp'.username = UserName(caller)
                   /\ resp'.devices = UserDevices(caller)
       /\ \A caller \in StUsers :
             st_user_info(caller)
                => /\ st_resp'.username = StUserName(caller)
                   /\ st_resp'.devices = StUserDevices(caller)]_vars

(* C6: no callback of a poll starts while a callback of an earlier poll is   *)
(* unfinished.                                                               *)
C6_CallbacksSerializedPerPoll ==
    /\ \A task \in tasks :
          task.pc = "read" => \A other \in tasks : other.poll >= task.poll
    /\ lpc = "remove" => \A other \in tasks : other.poll >= polls

(* C7: when the shutdown sequence has completed, no callback is left to run  *)
(* and the registry equals the result of the last poll the listener applied. *)
C7_ShutdownLeavesLastPoll ==
    mpc = "done" => /\ lpc = "exited"
                    /\ pending = {}
                    /\ tasks = {}
                    /\ subscribed_tenants = last_subscribers

(* C8: the registry changes only in a step of add_subscriber or of           *)
(* remove_subscriber; the background job and the HTTP handlers leave it as   *)
(* it is, whether they succeed or fail.                                      *)
C8_OnlyCallbacksWriteRegistry ==
    [][subscribed_tenants' # subscribed_tenants
          => \/ \E task \in tasks : AddWrite(task)
             \/ RemoveWrite
             \/ \E t \in Tenants : add_subscriber(t)
             \/ \E t \in Tenants : remove_subscriber(t)]_vars

\* The job has processed one tenant and failed on another, a /subscribers
\* request has failed, and the registry is not empty.
C8_ReadersRanWitness ==
    /\ subscribed_tenants # {}
    /\ sweep_processed # {}
    /\ sweep_failed # {}
    /\ resp.route = "subscribers"
    /\ resp.status = 500
    /\ resp.fetched # {}

(* C9: a call of add_subscriber(t) right after add_subscriber(t), or of      *)
(* remove_subscriber(t) right after remove_subscriber(t), leaves the         *)
(* registry as the first call left it.                                       *)
C9_CallbacksIdempotent ==
    [][\A t \in Tenants :
          /\ (sq_last = <<"add", t>> /\ add_subscriber(t))
                => subscribed_tenants' = subscribed_tenants
          /\ (sq_last = <<"remove", t>> /\ remove_subscriber(t))
                => subscribed_tenants' = subscribed_tenants]_vars

\* add_subscriber was called twice in succession with the same tenant.
C9_CalledTwiceWitness ==
    /\ sq_repeat
    /\ sq_last[1] = "add"
    /\ sq_last[2] \in subscribed_tenants

(* C10: a task that starts with a C8Y_ variable in the environment connects  *)
(* with the environment it started with (nothing the .env file defines is    *)
(* added or changes a value); a task that starts with none, beside a .env    *)
(* file, connects with the file's variables loaded.                          *)
C10_DotenvIgnoredWithSessionVars ==
    (/\ task_done \in {"register", "deregister", "upload", "write_env"}
     /\ connections > 0)
       => IF c8y_vars(env_at_start) # {}
          THEN conn_env = env_at_start
          ELSE dotenv_file.exists
                  => \A k \in EnvNames :
                        conn_env[k] = IF env_at_start[k] # Unset
                                      THEN env_at_start[k]
                                      ELSE dotenv_file.vars[k]

\* The applications of that name among apps, as a number.
CountNamed(apps, name) == Len(get_all(apps, name))

\* apps without its i-th entry.
WithoutIndex(apps, i) ==
    [k \in 1..(Len(apps) - 1) |-> IF k < i THEN apps[k] ELSE apps[k + 1]]

\* C11: when no application of the given name exists, unregister_microservice
\* and get_bootstrap_credentials fail with LookupError and change nothing on
\* the platform (no delete, no other request); when at least one exists,
\* unregister_microservice deletes exactly the first application of that
\* name and leaves every other application as it was.
C11_Step ==
    pf_ops' # <<>>
    => /\ (/\ pf_ops'[1].op \in {"unregister", "credentials"}
           /\ \A i \in 1..Len(pf_apps) : pf_apps[i].name # pf_ops'[1].name)
          => /\ pf_ops'[1].result = "LookupError"
             /\ pf_ops'[1].requests = {}
             /\ Len(pf_ops') = 1
             /\ pf_apps' = pf_apps
             /\ pf_subscribed' = pf_subscribed
             /\ pf_binaries' = pf_binaries
       /\ (/\ pf_ops'[1].op = "unregister"
           /\ \E i \in 1..Len(pf_apps) : pf_apps[i].name = pf_ops'[1].name)
          => /\ pf_ops'[1].result = "ok"
             /\ pf_ops'[1].requests = {"delete"}
             /\ Len(pf_ops') = 1
             /\ \E i \in 1..Len(pf_apps) :
                   /\ pf_apps[i].name = pf_ops'[1].name
                   /\ \A j \in 1..(i - 1) : pf_apps[j].name # pf_ops'[1].name
                   /\ pf_ops'[1].app = pf_apps[i].id
                   /\ pf_apps' = WithoutIndex(pf_apps, i)

C11_MissingFailsElseDeletesFirst == [][C11_Step]_vars

\* An unregister_microservice has deleted one of two applications of the
\* same name: the other one is still there.
C11_DeletedFirstOfTwoWitness ==
    /\ pf_ops # <<>>
    /\ pf_ops[1].op = "unregister"
    /\ pf_ops[1].result = "ok"
    /\ pf_ops[1].matches = 2
    /\ CountNamed(pf_apps, pf_ops[1].name) = 1

\* C13: register_microservice is idempotent with respect to platform state:
\* starting with at most one application of that name, after a successful
\* register_microservice(name) there is exactly one application of that
\* name, its required roles equal the manifest's as a set, and a call that
\* follows another register_microservice(name) makes no create, no update and
\* no subscription request.
C13_RegisterIdempotent ==
    (/\ pf_ops # <<>>
     /\ pf_ops[1].op = "register"
     /\ pf_ops[1].result = "ok"
     /\ pf_ops[1].matches <= 1)
    => /\ CountNamed(pf_apps, pf_ops[1].name) = 1
       /\ \A i \in 1..Len(pf_apps) :
             pf_apps[i].name = pf_ops[1].name
             => /\ ToSet(pf_apps[i].roles) = ToSet(pf_manifest)
                /\ pf_apps[i].id = pf_ops[1].app
       /\ pf_ops[1].repeat => pf_ops[1].requests = {}

\* A second upload in a row: its register_microservice finds an application
\* whose role list differs from the manifest's as a list but not as a set.
C13_RegisteredTwiceWitness ==
    /\ task_done = "upload"
    /\ Len(pf_ops) = 2
    /\ pf_ops[1].op = "register"
    /\ pf_ops[1].repeat
    /\ pf_ops[1].requests = {}
    /\ \E i \in 1..Len(pf_apps) :
          /\ pf_apps[i].name = pf_ops[1].name
          /\ pf_apps[i].roles # pf_manifest

\* The pattern as it is stated: a letter, then any number of letters, digits
\* and dashes, and nothing else anywhere.
StatedPattern(name) ==
    /\ Len(name) >= 1
    /\ name[1] \in Letters
    /\ \A k \in 2..Len(name) : name[k] \in Letters \cup Digits \cup {"-"}

\* C12: the init and build tasks accept a name if and only if it starts with
\* a letter and is followed by any number of letters, digits and dashes, with
\* no underscore or other character anywhere; with every other name the task
\* exits with status 2 before MICROSERVICE_NAME or ISOLATION is written and
\* before the build script is run.
C12_NameAcceptedIffPattern ==
    nm_op.task # "none"
    => /\ nm_op.accepted <=> StatedPattern(nm_op.name)
       /\ ~StatedPattern(nm_op.name)
          => /\ nm_op.exit = 2
             /\ nm_op.effects = {}

====
